---- MODULE Spec2Model ----
(***************************************************************************)
(* Model of scripts/analysis/amwg_table.py: the AMWG variable table.       *)
(*                                                                         *)
(* amwg_table loops over the CAM cases (the case and, unless compare_obs,  *)
(* the baseline) and over diag_var_list; for each variable it globs the    *)
(* time-series file, loads it, drops variables with a vertical coordinate, *)
(* averages over the spatial dimensions, resamples to annual means,        *)
(* computes the statistics, appends one row to the case's CSV and rewrites *)
(* the case's HTML.                                                        *)
(*                                                                         *)
(* Numbers: means are exact rationals [num, den]; a standard deviation is  *)
(* kept as the non-negative root of a rational, [sq |-> r] standing for    *)
(* sqrt(r), so that dividing and scaling it is exact.                      *)
(***************************************************************************)
EXTENDS Integers, Sequences, FiniteSets, TLC

\* ---------------------------------------------------------------- bounds
\* longest diag_var_list
MaxVars == 2
\* most files one glob pattern matches
MaxFiles == 2
\* most time samples of a loaded series (statistics specification)
MaxSamples == 3

\* ------------------------------------------------------------- universes
CaseNameSet == {"A", "B"}
\* diag_var_list is a prefix of this list of CAM variables
VarNames == <<"TS", "PSL", "PRECT", "SWCF">>
Years == {2000, 2001}
SampleValues == {0, 2}
NoUnits == "(no units attribute)"

VARIABLES
    write_html,     \* adf.get_basic_info("create_html")
    case_names,     \* [case] or [case, baseline]
    var_list,       \* adf.diag_var_list
    outdir,         \* output_location.is_dir()
    csv,            \* file name stem -> contents of amwg_table_<name>.csv
    html,           \* file name stem -> contents of amwg_table_<name>.html
    case_idx,       \* position of the case loop (1-based)
    var_idx,        \* position of the variable loop (1-based)
    pc,             \* "case", "var", "load", "guard", "reduce", "stats", "append", "html"
    status,         \* "running", "done", "aborted"
    error,          \* the exception that ended the run, or "none"
    ts_files,       \* number of files the last glob matched
    loaded,         \* the array _load_data returned for the current variable
    data,           \* the local `data` (loaded, then reduced, then annual)
    unit_str,       \* the local `unit_str`
    row,            \* the local `row_values`
    reduced,        \* history: _spatial_average was called in this iteration
    passed,         \* history: file stem -> indices of var_list past all guards
    fresh           \* history: file stems whose outputs this run recreated

vars == <<write_html, case_names, var_list, outdir, csv, html, case_idx, var_idx,
          pc, status, error, ts_files, loaded, data, unit_str, row, reduced,
          passed, fresh>>

config == <<write_html, case_names, var_list>>
locals == <<ts_files, loaded, data, unit_str, row, reduced>>

\* ------------------------------------------------------------- rationals
RECURSIVE GCD(_, _)
GCD(a, b) == IF b = 0 THEN a ELSE GCD(b, a % b)

Abs(x) == IF x < 0 THEN -x ELSE x

Rat(n, d) ==
    LET g == GCD(Abs(n), Abs(d))
        s == IF d < 0 THEN -1 ELSE 1
    IN  [num |-> (s * n) \div g, den |-> (s * d) \div g]

RAdd(a, b) == Rat(a.num * b.den + b.num * a.den, a.den * b.den)
RSub(a, b) == Rat(a.num * b.den - b.num * a.den, a.den * b.den)
RMul(a, b) == Rat(a.num * b.num, a.den * b.den)
RDivInt(a, n) == Rat(a.num, a.den * n)
RInt(n) == Rat(n, 1)
REq(a, b) == a.num * b.den = b.num * a.den

RECURSIVE RSum(_)
RSum(s) == IF s = <<>> THEN RInt(0) ELSE RAdd(Head(s), RSum(Tail(s)))

RDiv(a, b) == Rat(a.num * b.den, a.den * b.num)

\* 0/0, what numpy returns for a quotient of two zeros
NaN == [num |-> 0, den |-> 0]

\* ----------------------------------------------------------------- files
Absent == [exists |-> FALSE, lines |-> <<>>]

File(lines) == [exists |-> TRUE, lines |-> lines]

\* cols, the header row of the table
cols == <<"variable", "unit", "mean", "sample size", "standard dev.",
          "standard error", "95% CI", "trend", "trend p-value">>

HeaderLine == [kind |-> "header", cells |-> cols, origin |-> "this run"]

RowLine(r) == [kind |-> "row", cells |-> r, origin |-> "this run"]

\* what an earlier run of the script left in the output directory: a table
\* with its header and one row
StaleRow ==
    <<"TS", "K", RInt(1), 1, [sq |-> RInt(0)], [sq |-> RInt(0)], [sq |-> RInt(0)],
      [intercept |-> NaN, slope |-> NaN], "pvalue">>

StaleCsv ==
    File(<<[kind |-> "header", cells |-> cols, origin |-> "earlier run"],
           [kind |-> "row", cells |-> StaleRow, origin |-> "earlier run"]>>)

\* ---------------------------------------------------------------- arrays
\* A DataArray: its dimension names in order, the names of its coordinates
\* (a coordinate need not be a dimension, a dimension need not have a
\* coordinate), its units attribute, the years of its time coordinate and,
\* per time step, its value; values[i] stands for the field at step i, which
\* the spatial mean collapses to one number.
Array(dims, coords, units, time, values) ==
    [dims |-> dims, coords |-> coords, units |-> units, time |-> time,
     values |-> values, weights |-> "none"]

DimLists ==
    {<<"time">>, <<"time", "lat", "lon">>, <<"time", "ncol">>,
     <<"time", "lev", "lat", "lon">>, <<"time", "ilev", "lat", "lon">>,
     <<"lat", "lon">>, <<"lat">>}

\* the coordinates an array of these dimensions may carry: any of lat, lev and
\* ilev (as a dimension coordinate or a scalar one) and, on the unstructured
\* grid, ncol
CoordSets(dims) ==
    SUBSET ({"lat", "lev", "ilev"}
              \cup (IF \E i \in DOMAIN dims : dims[i] = "ncol" THEN {"ncol"} ELSE {}))

UnitSet == {"K", NoUnits}

HasDim(d, name) == \E i \in DOMAIN d.dims : d.dims[i] = name

NonDecreasing(t) == \A i \in DOMAIN t : \A j \in DOMAIN t : i <= j => t[i] <= t[j]

\* every series of 1..MaxSamples samples
AllSeries ==
    UNION {{[time |-> t, values |-> [i \in 1..n |-> RInt(v[i])]] :
              t \in {u \in [1..n -> Years] : NonDecreasing(u)},
              v \in [1..n -> SampleValues]} : n \in 1..MaxSamples}

\* the series the files of the table specification hold
TableSeries == {[time |-> <<2000, 2000, 2001>>, values |-> <<RInt(0), RInt(2), RInt(2)>>]}

NoSeries == [time |-> <<>>, values |-> <<>>]

WithSeries(dims, coords, units, S) ==
    IF \E i \in DOMAIN dims : dims[i] = "time"
    THEN {Array(dims, coords, units, s.time, s.values) : s \in S}
    ELSE {Array(dims, coords, units, NoSeries.time, NoSeries.values)}

\* what a matched file can hold for the variable
FileArrays ==
    UNION {UNION {WithSeries(dims, coords, units, TableSeries) :
                    coords \in CoordSets(dims), units \in UnitSet} :
             dims \in DimLists}

\* the arrays of the statistics specification: time series of every shape
StatArrays ==
    UNION {WithSeries(<<"time">>, {}, units, AllSeries) : units \in UnitSet}

\* ------------------------------------------------------- pure functions
\* faulty variant: no matching file ends the run (line 174, the former behaviour)
GlobOutcome_NoFileRaises(n) == IF n # 1 THEN "AdfError" ELSE "load"

\* faulty variant: with several matches the first file is taken
GlobOutcome_TakesFirst(n) == IF n = 0 THEN "continue" ELSE "load"

\* lines 172-182: what the number of matched files decides
GlobOutcome(n) ==
    IF n = 0 THEN "continue"
    ELSE IF n # 1 THEN "AdfError"
    ELSE "load"

\* line 137: the message is formatted with input_ts_loc, a name the function
\* never binds (its lists are input_ts_locs and input_ts_baseline), so
\* evaluating the line raises NameError before line 138 can raise AdfError
DirMissingError == "NameError"

\* faulty variant: the CSV of an earlier run is kept
Unlink_Keeps(f) == f

\* lines 154-155: an existing CSV file is unlinked
Unlink(f) == Absent

\* lines 187-191
UnitStr(d) == IF d.units # NoUnits THEN d.units ELSE "--"

\* faulty variant: the guard forgets ilev
HasVerticalCoord_LevOnly(d) == "lev" \in d.coords

\* line 194: the guard reads the coordinates, not the dimensions
HasVerticalCoord(d) == "lev" \in d.coords \/ "ilev" \in d.coords

\* faulty variant: off by one, a time series is averaged too
NeedsSpatialAverage_AnyDim(d) == Len(d.dims) >= 1

\* line 201
NeedsSpatialAverage(d) == Len(d.dims) > 1

\* lines 266-267
AssertsHold(indata) == "lev" \notin indata.coords /\ "ilev" \notin indata.coords

\* lines 268-277
Weights(indata) ==
    IF "lat" \in indata.coords THEN "cos(lat)"
    ELSE IF "ncol" \in indata.coords THEN "uniform (warned)"
    ELSE "uniform"

IsTime(dim) == dim = "time"

\* lines 278-281: the weighted mean over every dimension but time; the
\* coordinates of the averaged dimensions go with them
_spatial_average(indata) ==
    LET avgdims == {indata.dims[i] : i \in {j \in DOMAIN indata.dims : indata.dims[j] # "time"}}
    IN  [indata EXCEPT !.dims = SelectSeq(indata.dims, IsTime),
                       !.coords = indata.coords \ avgdims,
                       !.weights = Weights(indata)]

RECURSIVE SortedSeq(_)
SortedSeq(S) ==
    IF S = {} THEN <<>>
    ELSE LET m == CHOOSE x \in S : \A y \in S : x <= y
         IN  <<m>> \o SortedSeq(S \ {m})

\* the values of the samples whose time coordinate falls in year y
RECURSIVE SamplesOf(_, _, _)
SamplesOf(t, v, y) ==
    IF t = <<>> THEN <<>>
    ELSE (IF Head(t) = y THEN <<Head(v)>> ELSE <<>>) \o SamplesOf(Tail(t), Tail(v), y)

\* line 208: data.groupby('time.year').mean(dim='time')
GroupByYearMean(d) ==
    LET ys == SortedSeq({d.time[i] : i \in DOMAIN d.time})
    IN  [d EXCEPT !.dims = <<"year">>,
                  !.time = ys,
                  !.values = [k \in 1..Len(ys) |->
                                 RDivInt(RSum(SamplesOf(d.time, d.values, ys[k])),
                                         Len(SamplesOf(d.time, d.values, ys[k])))]]

\* line 211
Mean(v) == RDivInt(RSum(v), Len(v))

Sq(a) == RMul(a, a)

\* line 213: DataArray.std defaults to ddof = 0, the population deviation
data_std(v) ==
    [sq |-> RDivInt(RSum([i \in 1..Len(v) |-> Sq(RSub(v[i], Mean(v)))]), Len(v))]

\* faulty variant: the textbook standard error, std / sqrt(n)
data_sem_Sqrt(std, n) == [sq |-> RDivInt(std.sq, n)]

\* line 214: data_std / data_sample
data_sem(std, n) == [sq |-> RDivInt(std.sq, n * n)]

\* line 215: data_sem * 1.96
data_ci(sem) == [sq |-> RMul(sem.sq, Sq(Rat(196, 100)))]

\* line 216: the least-squares line through (year, value); with one year the
\* spread of x is 0 and slope and intercept are 0/0
linregress(x, y) ==
    LET n == Len(x)
        xs == [i \in 1..n |-> RInt(x[i])]
        xm == Mean(xs)
        ym == Mean(y)
        ssxm == RDivInt(RSum([i \in 1..n |-> Sq(RSub(xs[i], xm))]), n)
        ssxym == RDivInt(RSum([i \in 1..n |-> RMul(RSub(xs[i], xm), RSub(y[i], ym))]), n)
    IN  IF ssxm.num = 0
        THEN [intercept |-> NaN, slope |-> NaN]
        ELSE [intercept |-> RSub(ym, RMul(RDiv(ssxym, ssxm), xm)),
              slope |-> RDiv(ssxym, ssxm)]

\* lines 211-224: row_values, for the annual series d
RowValues(var, unit, d) ==
    LET data_sample == Len(d.values)
        std == data_std(d.values)
        sem == data_sem(std, data_sample)
    IN  <<var, unit, Mean(d.values), data_sample, std, sem, data_ci(sem),
          linregress(d.time, d.values), "pvalue">>

\* faulty variant: every write carries the header
to_csv_HeaderAlways(f, r) == File(f.lines \o <<HeaderLine, RowLine(r)>>)

\* lines 234-237: append without header to an existing file, else write the
\* header and the row
to_csv(f, r) ==
    IF f.exists
    THEN File(Append(f.lines, RowLine(r)))
    ELSE File(<<HeaderLine, RowLine(r)>>)

\* line 288: float_format applies '{:,.3g}' to the float cells (mean, the
\* deviation, the error, the interval, the p-value); the other cells are printed as read
Format3g(x) == [fmt |-> "{:,.3g}", of |-> x]

HtmlRow(line) ==
    [origin |-> line.origin,
     cells |-> [k \in DOMAIN line.cells |->
                   IF k \in {3, 5, 6, 7, 9} THEN Format3g(line.cells[k]) ELSE line.cells[k]]]

IsRow(line) == line.kind = "row"

\* faulty variant: an incremental page, holding the newest row only
_write_html_LastRow(f, stem) ==
    [exists |-> TRUE,
     title |-> <<"amwg_table_", stem>>,
     columns |-> f.lines[1].cells,
     rows |-> <<HtmlRow(f.lines[Len(f.lines)])>>]

\* lines 285-294: the document made from the whole CSV file f of stem `stem`
_write_html(f, stem) ==
    [exists |-> TRUE,
     title |-> <<"amwg_table_", stem>>,
     columns |-> f.lines[1].cells,
     rows |-> [k \in 1..(Len(f.lines) - 1) |-> HtmlRow(f.lines[k + 1])]]

NoHtml == [exists |-> FALSE, title |-> <<>>, columns |-> <<>>, rows |-> <<>>]


\* ------------------------------------------------------------------ Init
\* the case alone (compare_obs), or the case and a baseline of another or of
\* the same name
CaseLists == {<<"A">>, <<"A", "B">>, <<"A", "A">>}

VarLists == {SubSeq(VarNames, 1, k) : k \in 0..MaxVars}

\* the start of a run: the configuration, and an output directory that is
\* missing, or holds for some case names the table of an earlier run (with
\* its HTML when that run wrote HTML)
Init ==
    /\ write_html \in BOOLEAN
    /\ case_names \in CaseLists
    /\ var_list \in VarLists
    /\ outdir \in BOOLEAN
    /\ \E stale \in SUBSET CaseNameSet : \E earlier_html \in BOOLEAN :
          /\ ~outdir => stale = {}
          /\ stale = {} => ~earlier_html
          /\ csv = [n \in CaseNameSet |-> IF n \in stale THEN StaleCsv ELSE Absent]
          /\ html = [n \in CaseNameSet |->
                        IF n \in stale /\ earlier_html
                        THEN _write_html(StaleCsv, n) ELSE NoHtml]
    /\ case_idx = 1
    /\ var_idx = 1
    /\ pc = "case"
    /\ status = "running"
    /\ error = "none"
    /\ ts_files = 0
    /\ loaded = NoSeries
    /\ data = NoSeries
    /\ unit_str = "--"
    /\ row = <<>>
    /\ reduced = FALSE
    /\ passed = [n \in CaseNameSet |-> <<>>]
    /\ fresh = {}

\* --------------------------------------------------------------- actions
case_name == case_names[case_idx]

var == var_list[var_idx]

Running == status = "running"

Raise(e) ==
    /\ status' = "aborted"
    /\ error' = e

\* The end of an iteration of the variable loop. The locals of the iteration
\* are dead there (each is assigned again before it is read), so the model
\* forgets them.
NextVariable ==
    /\ var_idx' = var_idx + 1
    /\ pc' = "var"
    /\ loaded' = NoSeries
    /\ data' = NoSeries
    /\ unit_str' = "--"
    /\ row' = <<>>
    /\ reduced' = FALSE

\* line 130, after the last case: lines 249-250
CaseLoopEnd ==
    /\ Running /\ pc = "case" /\ case_idx > Len(case_names)
    /\ status' = "done"
    /\ UNCHANGED <<config, outdir, csv, html, case_idx, var_idx, pc, error, locals,
                   passed, fresh>>

\* lines 133-138: the time-series directory of the case is not a directory
CaseDirMissing ==
    /\ Running /\ pc = "case" /\ case_idx <= Len(case_names)
    /\ Raise(DirMissingError)
    /\ UNCHANGED <<config, outdir, csv, html, case_idx, var_idx, pc, locals,
                   passed, fresh>>

\* lines 133-159: the directory exists; make the output directory, delete the
\* CSV of the case and, when HTML is written, its HTML
CaseSetup ==
    /\ Running /\ pc = "case" /\ case_idx <= Len(case_names)
    /\ outdir' = TRUE
    /\ csv' = [csv EXCEPT ![case_name] = Unlink(@)]
    /\ html' = IF write_html THEN [html EXCEPT ![case_name] = NoHtml] ELSE html
    /\ var_idx' = 1
    /\ pc' = "var"
    /\ passed' = [passed EXCEPT ![case_name] = <<>>]
    /\ fresh' = fresh \cup {case_name}
    /\ UNCHANGED <<config, case_idx, status, error, locals>>

\* line 162, after the last variable: on to the next case
VarLoopEnd ==
    /\ Running /\ pc = "var" /\ var_idx > Len(var_list)
    /\ case_idx' = case_idx + 1
    /\ pc' = "case"
    /\ UNCHANGED <<config, outdir, csv, html, var_idx, status, error, locals,
                   passed, fresh>>

AtGlob == Running /\ pc = "var" /\ var_idx <= Len(var_list)

\* lines 167-176: no file matches; warn and continue with the next variable
GlobNone ==
    /\ AtGlob
    /\ \E n \in 0..MaxFiles :
          /\ GlobOutcome(n) = "continue"
          /\ ts_files' = n
    /\ NextVariable
    /\ UNCHANGED <<config, outdir, csv, html, case_idx, status, error, passed, fresh>>

\* lines 167-182: several files match; the run ends with AdfError
GlobMultiple ==
    /\ AtGlob
    /\ \E n \in 0..MaxFiles :
          /\ GlobOutcome(n) = "AdfError"
          /\ ts_files' = n
    /\ Raise("AdfError")
    /\ UNCHANGED <<config, outdir, csv, html, case_idx, var_idx, pc,
                   loaded, data, unit_str, row, reduced, passed, fresh>>

\* lines 167-182: exactly one file matches
GlobOne ==
    /\ AtGlob
    /\ \E n \in 0..MaxFiles :
          /\ GlobOutcome(n) = "load"
          /\ ts_files' = n
    /\ pc' = "load"
    /\ UNCHANGED <<config, outdir, csv, html, case_idx, var_idx, status, error,
                   loaded, data, unit_str, row, reduced, passed, fresh>>

\* lines 185, 256-259: the file does not hold the variable; ds[varname] raises
LoadFail ==
    /\ Running /\ pc = "load"
    /\ Raise("KeyError")
    /\ UNCHANGED <<config, outdir, csv, html, case_idx, var_idx, pc, locals,
                   passed, fresh>>

\* lines 185-191, 256-259: the variable of the file, and its units
LoadData ==
    /\ Running /\ pc = "load"
    /\ \E a \in FileArrays :
          /\ loaded' = a
          /\ data' = a
          /\ unit_str' = UnitStr(a)
    /\ pc' = "guard"
    /\ UNCHANGED <<config, outdir, csv, html, case_idx, var_idx, status, error,
                   ts_files, row, reduced, passed, fresh>>

\* lines 193-198: the array has a vertical coordinate; skip the variable
VerticalSkip ==
    /\ Running /\ pc = "guard"
    /\ HasVerticalCoord(data)
    /\ NextVariable
    /\ UNCHANGED <<config, outdir, csv, html, case_idx, status, error, ts_files,
                   passed, fresh>>

\* lines 193-198: the array passes the vertical guard
VerticalPass ==
    /\ Running /\ pc = "guard"
    /\ ~HasVerticalCoord(data)
    /\ passed' = [passed EXCEPT ![case_name] = Append(@, var_idx)]
    /\ pc' = "reduce"
    /\ UNCHANGED <<config, outdir, csv, html, case_idx, var_idx, status, error,
                   locals, fresh>>

\* lines 200-205, 263-281: more than one dimension; _spatial_average, whose
\* assertions end the run when they fail
SpatialAverage ==
    /\ Running /\ pc = "reduce"
    /\ NeedsSpatialAverage(data)
    /\ reduced' = TRUE
    /\ IF AssertsHold(data)
       THEN /\ data' = _spatial_average(data)
            /\ pc' = "stats"
            /\ UNCHANGED <<status, error>>
       ELSE /\ Raise("AssertionError")
            /\ UNCHANGED <<data, pc>>
    /\ UNCHANGED <<config, outdir, csv, html, case_idx, var_idx, ts_files, loaded,
                   unit_str, row, passed, fresh>>

\* lines 200-205: one dimension or none; the Reducer is not called
BypassReducer ==
    /\ Running /\ pc = "reduce"
    /\ ~NeedsSpatialAverage(data)
    /\ pc' = "stats"
    /\ UNCHANGED <<config, outdir, csv, html, case_idx, var_idx, status, error,
                   locals, passed, fresh>>

\* line 208: the array has no time dimension; groupby('time.year') raises
ResampleFail ==
    /\ Running /\ pc = "stats"
    /\ ~HasDim(data, "time")
    /\ Raise("KeyError")
    /\ UNCHANGED <<config, outdir, csv, html, case_idx, var_idx, pc, locals,
                   passed, fresh>>

\* lines 207-224: annual means and the statistics of the row
Statistics ==
    /\ Running /\ pc = "stats"
    /\ HasDim(data, "time")
    /\ data' = GroupByYearMean(data)
    /\ row' = RowValues(var, unit_str, GroupByYearMean(data))
    /\ pc' = "append"
    /\ UNCHANGED <<config, outdir, csv, html, case_idx, var_idx, status, error,
                   ts_files, loaded, unit_str, reduced, passed, fresh>>

\* lines 226-237: the row goes to the CSV of the case
AppendCsv ==
    /\ Running /\ pc = "append"
    /\ csv' = [csv EXCEPT ![case_name] = to_csv(@, row)]
    /\ pc' = "html"
    /\ UNCHANGED <<config, outdir, html, case_idx, var_idx, status, error, locals,
                   passed, fresh>>

\* lines 239-241, 285-294: the HTML of the case is rewritten from its CSV
WriteHtml ==
    /\ Running /\ pc = "html"
    /\ write_html
    /\ html' = [html EXCEPT ![case_name] = _write_html(csv[case_name], case_name)]
    /\ NextVariable
    /\ UNCHANGED <<config, outdir, csv, case_idx, status, error, ts_files, passed, fresh>>

\* line 240: no HTML is wanted
SkipHtml ==
    /\ Running /\ pc = "html"
    /\ ~write_html
    /\ NextVariable
    /\ UNCHANGED <<config, outdir, csv, html, case_idx, status, error, ts_files,
                   passed, fresh>>

Next ==
    \/ CaseLoopEnd \/ CaseDirMissing \/ CaseSetup \/ VarLoopEnd
    \/ GlobNone \/ GlobMultiple \/ GlobOne
    \/ LoadFail \/ LoadData \/ VerticalSkip \/ VerticalPass
    \/ SpatialAverage \/ BypassReducer
    \/ ResampleFail \/ Statistics
    \/ AppendCsv \/ WriteHtml \/ SkipHtml

Spec == Init /\ [][Next]_vars

\* ------------------------------------------- the statistics specification
\* One variable of one case, started at the statistics step with a time
\* series of any shape of 1..MaxSamples samples.
InitStats ==
    /\ write_html \in BOOLEAN
    /\ case_names = <<"A">>
    /\ var_list = SubSeq(VarNames, 1, 1)
    /\ outdir = TRUE
    /\ csv = [n \in CaseNameSet |-> Absent]
    /\ html = [n \in CaseNameSet |-> NoHtml]
    /\ case_idx = 1
    /\ var_idx = 1
    /\ pc = "stats"
    /\ status = "running"
    /\ error = "none"
    /\ ts_files = 1
    /\ loaded \in StatArrays
    /\ data = loaded
    /\ unit_str = UnitStr(loaded)
    /\ row = <<>>
    /\ reduced = FALSE
    /\ passed = [n \in CaseNameSet |-> IF n = "A" THEN <<1>> ELSE <<>>]
    /\ fresh = {"A"}

NextStats == Statistics \/ AppendCsv \/ WriteHtml \/ SkipHtml

SpecStats == InitStats /\ [][NextStats]_vars

\* ------------------------------------------------------------ properties
HasVerticalDim(d) == HasDim(d, "lev") \/ HasDim(d, "ilev")

\* the current variable has passed the guards and its row is not yet appended
\* to the CSV of stem n
InFlight(n) ==
    /\ pc \in {"reduce", "stats", "append"}
    /\ case_name = n

IsEmitted(i) == i # var_idx

\* the variables of the case of stem n that passed all guards and whose row
\* has been appended
Emitted(n) == IF InFlight(n) THEN SelectSeq(passed[n], IsEmitted) ELSE passed[n]

\* the CSV of stem n is the header followed by one row per emitted variable,
\* in the order of var_list
TableOf(n) ==
    LET f == csv[n]
        done == Emitted(n)
    IN  /\ Len(f.lines) = Len(done) + 1
        /\ f.lines[1].kind = "header"
        /\ f.lines[1].cells = cols
        /\ \A k \in 1..Len(done) :
              /\ f.lines[k + 1].kind = "row"
              /\ f.lines[k + 1].cells[1] = var_list[done[k]]
              /\ k > 1 => done[k - 1] < done[k]

NoEarlierRow(n) == \A k \in DOMAIN csv[n].lines : csv[n].lines[k].origin # "earlier run"

\* C1: when the glob of a variable matches no file, the step raises nothing,
\* appends no row and writes no HTML, and the loop goes on with the next
\* variable of the same case.
C1_NoFileContinues ==
    [][AtGlob /\ ts_files' = 0 =>
          /\ status' = "running"
          /\ error' = "none"
          /\ csv' = csv
          /\ html' = html
          /\ case_idx' = case_idx
          /\ var_idx' = var_idx + 1
          /\ pc' = "var"]_vars

C1_Witness ==
    /\ Running /\ pc = "var" /\ ts_files = 0
    /\ case_idx = 1 /\ var_idx = 2 /\ Len(var_list) >= 2 /\ Len(case_names) = 2

\* C2: when the glob of a variable matches more than one file the run ends
\* with AdfError in that step, no file of the variable is loaded, and after a
\* run has ended no row is appended, no file is loaded and no loop advances.
C2_MultipleFilesAbort ==
    [][/\ AtGlob /\ ts_files' > 1 =>
             /\ status' = "aborted"
             /\ error' = "AdfError"
             /\ csv' = csv
             /\ html' = html
             /\ loaded' = NoSeries
       /\ status = "aborted" =>
             /\ csv' = csv
             /\ loaded' = loaded
             /\ var_idx' = var_idx
             /\ case_idx' = case_idx]_vars

C2_Witness ==
    /\ status = "aborted" /\ error = "AdfError" /\ ts_files > 1
    /\ loaded = NoSeries
    /\ case_idx = 1 /\ Len(case_names) = 2
    /\ var_idx = 1 /\ Len(var_list) >= 2

\* C3: a loaded variable whose array has a dimension named lev or ilev is
\* skipped: it never gets past the vertical guard, so it is never averaged
\* and never yields a row.
C3_VerticalDimSkipped ==
    pc \in {"reduce", "stats", "append", "html"} => ~HasVerticalDim(loaded)

\* C4: when the time-series directory of a case is missing the run ends at
\* that case with AdfError, and no output file and no variable of the case is
\* touched.
C4_MissingDirAdfError ==
    [][Running /\ pc = "case" /\ status' = "aborted" =>
          /\ error' = "AdfError"
          /\ csv' = csv
          /\ html' = html
          /\ passed' = passed]_vars

\* C5 as stated: at every point of the run the CSV of every case, if it
\* exists, is the header and one row per variable that passed the guards.
C5_Original ==
    \A i \in DOMAIN case_names :
        csv[case_names[i]].exists => TableOf(case_names[i])

\* C5 as amended: from the point where the iteration of a case has deleted a
\* pre-existing CSV, the CSV of the case exists exactly when a row has been
\* appended, and is then one header row followed by one data row for each
\* variable that passed all guards and reached the append, in var_list order.
C5_FreshCsvIsTable ==
    \A n \in fresh :
        /\ csv[n].exists <=> Emitted(n) # <<>>
        /\ csv[n].exists => TableOf(n)

C5_Witness ==
    /\ pc = "html"
    /\ Len(csv[case_name].lines) = 3
    /\ passed[case_name] = <<1, 2>>
    /\ case_idx = 2

\* C6: with create_html, at the end of every variable iteration the HTML of
\* the current case exists exactly when its CSV exists and shows the columns
\* and every data row of the CSV, in order.
C6_HtmlMirrorsCsv ==
    write_html /\ pc = "var" /\ var_idx > 1 =>
        LET f == csv[case_name]
            h == html[case_name]
        IN  /\ h.exists <=> f.exists
            /\ f.exists =>
                  /\ h.title = <<"amwg_table_", case_name>>
                  /\ h.columns = f.lines[1].cells
                  /\ Len(h.rows) = Len(f.lines) - 1
                  /\ \A k \in 1..Len(h.rows) :
                        /\ h.rows[k].origin = f.lines[k + 1].origin
                        /\ h.rows[k].cells[1] = f.lines[k + 1].cells[1]
                        /\ h.rows[k].cells[2] = f.lines[k + 1].cells[2]
                        /\ h.rows[k].cells[3].of = f.lines[k + 1].cells[3]
                        /\ h.rows[k].cells[4] = f.lines[k + 1].cells[4]

C6_Witness ==
    /\ write_html /\ pc = "var" /\ var_idx = 3
    /\ Len(csv[case_name].lines) = 3
    /\ Len(html[case_name].rows) = 2

\* C7 as stated: after a run has ended, normally or by an abort, the CSV of no
\* case holds a row of an earlier run.
C7_Original ==
    status \in {"done", "aborted"} =>
        \A i \in DOMAIN case_names : NoEarlierRow(case_names[i])

\* C7 as amended: the CSV of a case is deleted when the iteration of that case
\* starts, after its directory check: from then on it holds no row of an
\* earlier run, and a run that ends normally has done so for every case.
C7_FreshPerCase ==
    /\ \A n \in fresh : NoEarlierRow(n)
    /\ status = "done" => \A i \in DOMAIN case_names : case_names[i] \in fresh
    /\ \A i \in DOMAIN case_names :
          (i < case_idx \/ (i = case_idx /\ pc # "case")) => case_names[i] \in fresh

\* an earlier run left a table and its page for A; this run, without HTML,
\* replaced the table
C7_Witness ==
    /\ status = "done" /\ ~write_html
    /\ html["A"].exists
    /\ csv["A"].exists
    /\ "A" \in fresh

C9_Original ==
    pc = "stats" =>
        /\ reduced <=> Len(loaded.dims) > 1
        /\ reduced => data.dims = <<"time">>
        /\ loaded.dims = <<"time">> => ~reduced /\ data = loaded

\* C9 as amended: the Reducer is called exactly for the arrays past the guard
\* with more than one dimension; its result keeps no dimension but time, and
\* has time as its only dimension when the array has a time dimension; an
\* array of at most one dimension reaches the resampling unchanged.
C9_ReducerExactlyWhenSpatial ==
    /\ reduced => ~HasVerticalCoord(loaded)
    /\ pc = "stats" =>
          /\ reduced <=> Len(loaded.dims) > 1
          /\ reduced => \A i \in DOMAIN data.dims : data.dims[i] = "time"
          /\ reduced /\ HasDim(loaded, "time") => data.dims = <<"time">>
          /\ ~reduced => data = loaded

C9_Witness ==
    /\ pc = "stats" /\ reduced
    /\ loaded.dims = <<"time", "lat", "lon">>
    /\ data.dims = <<"time">>

\* C10: the assertions of _spatial_average never fail: no run ends with
\* AssertionError, and every array handed to it has neither a lev nor an ilev
\* coordinate.
C10_AssertionsHold ==
    /\ error # "AssertionError"
    /\ reduced => "lev" \notin loaded.coords /\ "ilev" \notin loaded.coords

C10_Witness ==
    /\ Running /\ reduced
    /\ loaded.dims = <<"time", "ncol">>
    /\ data.weights = "uniform (warned)"
    /\ pc = "append"
====
